---- MODULE Spec2Model ----
(***************************************************************************)
(* Build_Product.py: scan a UPC, generate metadata, estimate a price from  *)
(* sold listings, mint a sequential SKU and post a product listing.        *)
(*                                                                         *)
(* Python strings are modelled as sequences of one-character strings, so   *)
(* that int(), float(), str(), strip(), split() and the format             *)
(* specification are computed, not assumed.  Python floats are modelled    *)
(* as exact rationals [num, den] (rounding is not modelled).  None is the   *)
(* empty sequence and a present value x is <<x>>.                           *)
(***************************************************************************)
EXTENDS Integers, Sequences, FiniteSets, TLC

(***************************************************************************)
(* Text helpers (Python str semantics on the characters used here).        *)
(***************************************************************************)

\* str.strip() with no argument removes these from both ends.
Whitespace == {" ", "\n", "\t", "\r"}

DigitChars == <<"0", "1", "2", "3", "4", "5", "6", "7", "8", "9">>

Digits == {DigitChars[i] : i \in 1..10}

DigitVal(c) == (CHOOSE i \in 1..10 : DigitChars[i] = c) - 1

RECURSIVE LStrip(_)
LStrip(s) ==
    IF s # <<>> /\ Head(s) \in Whitespace THEN LStrip(Tail(s)) ELSE s

RECURSIVE RStrip(_)
RStrip(s) ==
    IF s # <<>> /\ s[Len(s)] \in Whitespace
    THEN RStrip(SubSeq(s, 1, Len(s) - 1))
    ELSE s

\* s.strip()
Strip(s) == RStrip(LStrip(s))

AllDigits(s) == \A i \in 1..Len(s) : s[i] \in Digits

RECURSIVE DigitsVal(_)
DigitsVal(s) ==
    IF s = <<>> THEN 0
    ELSE 10 * DigitsVal(SubSeq(s, 1, Len(s) - 1)) + DigitVal(s[Len(s)])

HasSign(s) == s # <<>> /\ Head(s) \in {"-", "+"}

Unsigned(s) == IF HasSign(s) THEN Tail(s) ELSE s

\* int(s): surrounding whitespace ignored, an optional sign, then one or more
\* decimal digits; anything else raises ValueError (ok = FALSE).
ParseInt(s) ==
    LET t == Strip(s)
        d == Unsigned(t)
        good == d # <<>> /\ AllDigits(d)
    IN  [ok  |-> good,
         val |-> IF ~good THEN 0
                 ELSE IF t[1] = "-" THEN 0 - DigitsVal(d) ELSE DigitsVal(d)]

RECURSIVE NatToStr(_)
NatToStr(n) ==
    IF n < 10 THEN <<DigitChars[n + 1]>>
    ELSE NatToStr(n \div 10) \o <<DigitChars[(n % 10) + 1]>>

\* str(n) for an int
IntToStr(n) == IF n < 0 THEN <<"-">> \o NatToStr(0 - n) ELSE NatToStr(n)

RECURSIVE Zeros(_)
Zeros(k) == IF k <= 0 THEN <<>> ELSE <<"0">> \o Zeros(k - 1)

(***************************************************************************)
(* generate_sku                                                            *)
(***************************************************************************)

\* The clock readings datetime.now() is drawn from.
Dates ==
    { [year |-> 2026, month |-> 1,  day |-> 6],
      [year |-> 2025, month |-> 12, day |-> 31],
      [year |-> 2009, month |-> 10, day |-> 9] }

\* Minimum field width of the counter in the SKU (the 3 of ':03').
PadWidth == 3

\* The sequential file: absent, or present with its text.
NoFile == [exists |-> FALSE, content |-> <<>>]

FileOf(text) == [exists |-> TRUE, content |-> text]

\* A missing or unreadable file taken as a counter of 0.
ReadSequentialOrZero(file) ==
    IF ~file.exists \/ ~ParseInt(Strip(file.content)).ok
    THEN [raised |-> "None", val |-> 0]
    ELSE [raised |-> "None", val |-> ParseInt(Strip(file.content)).val]

\* with open(SEQUENTIAL_FILE, 'r') as f: seq_number = int(f.read().strip())
ReadSequential(file) ==
    IF ~file.exists THEN [raised |-> "FileNotFoundError", val |-> 0]
    ELSE IF ~ParseInt(Strip(file.content)).ok
         THEN [raised |-> "ValueError", val |-> 0]
         ELSE [raised |-> "None", val |-> ParseInt(Strip(file.content)).val]

\* The increment left out.
IncrementNone(n) == n

\* seq_number += 1
Increment(n) == n + 1

\* open(SEQUENTIAL_FILE, 'w'): creates the file or truncates it to nothing.
OpenForWrite(file) == FileOf(<<>>)

\* The write of a handle opened with 'a': the bytes land after what the file
\* holds.
WriteAtEnd(file, text) == FileOf(file.content \o text)

\* f.write(text) on a handle opened with 'w', flushed on leaving the with
\* block: the bytes land at offset 0 of whatever the file holds by then.
WriteAtStart(file, text) ==
    FileOf(text \o SubSeq(file.content, Len(text) + 1, Len(file.content)))

\* The new counter not written back.
PersistSequentialSkipped(file, n) == file

\* with open(SEQUENTIAL_FILE, 'w') as f: f.write(str(seq_number))
PersistSequential(file, n) == WriteAtStart(OpenForWrite(file), IntToStr(n))

TwoDigits(k) == <<DigitChars[(k \div 10) + 1], DigitChars[(k % 10) + 1]>>

\* datetime.now().strftime('%y%m%d')
DateStr(now) ==
    TwoDigits(now.year % 100) \o TwoDigits(now.month) \o TwoDigits(now.day)

\* The counter put in the SKU with str(), the width of the format left out.
FormatSeqUnpadded(n) == IntToStr(n)

\* f'{seq_number:03}': sign-aware zero fill to a total width of PadWidth.
FormatSeq(n) ==
    LET sign == IF n < 0 THEN <<"-">> ELSE <<>>
        body == NatToStr(IF n < 0 THEN 0 - n ELSE n)
    IN  sign \o Zeros(PadWidth - Len(sign) - Len(body)) \o body

\* sku = f'{date_str}-B-{seq_number:03}'
BuildSku(now, n) == DateStr(now) \o <<"-", "B", "-">> \o FormatSeq(n)

\* generate_sku() run without interruption against `file` at clock `now`.
\* An exception leaves before the file is opened for writing.
generate_sku(file, now) ==
    LET rd == ReadSequential(file)
        n  == Increment(rd.val)
    IN  IF rd.raised # "None"
        THEN [raised |-> rd.raised, sku |-> <<>>, seq |-> 0, file |-> file]
        ELSE [raised |-> "None", sku |-> <<BuildSku(now, n)>>, seq |-> n,
              file |-> PersistSequential(file, n)]

(***************************************************************************)
(* Numbers: a Python float is the exact rational [num, den], den > 0, in   *)
(* lowest terms.                                                           *)
(***************************************************************************)

Abs(n) == IF n < 0 THEN 0 - n ELSE n

RECURSIVE Gcd(_, _)
Gcd(a, b) == IF b = 0 THEN a ELSE Gcd(b, a % b)

Rat(n, d) ==
    LET g == Gcd(Abs(n), d)
    IN  [num |-> n \div g, den |-> d \div g]

RatAdd(a, b) == Rat(a.num * b.den + b.num * a.den, a.den * b.den)

RatDivInt(a, k) == Rat(a.num, a.den * k)

RECURSIVE Pow10(_)
Pow10(k) == IF k = 0 THEN 1 ELSE 10 * Pow10(k - 1)

\* Index of the first "." of s, or 0.
DotAt(s) ==
    IF \E i \in 1..Len(s) : s[i] = "."
    THEN CHOOSE i \in 1..Len(s) : s[i] = "." /\ \A j \in 1..(i - 1) : s[j] # "."
    ELSE 0

\* float(s): surrounding whitespace ignored, an optional sign, then decimal
\* digits with at most one point and at least one digit; anything else
\* (a currency symbol, an empty string) raises ValueError (ok = FALSE).
ParseFloat(s) ==
    LET t == Strip(s)
        u == Unsigned(t)
        k == DotAt(u)
        whole == IF k = 0 THEN u ELSE SubSeq(u, 1, k - 1)
        frac  == IF k = 0 THEN <<>> ELSE SubSeq(u, k + 1, Len(u))
        good  == AllDigits(whole) /\ AllDigits(frac) /\ Len(whole) + Len(frac) > 0
        mag   == DigitsVal(whole \o frac)
    IN  [ok  |-> good,
         val |-> IF ~good THEN Rat(0, 1)
                 ELSE Rat(IF t[1] = "-" THEN 0 - mag ELSE mag, Pow10(Len(frac)))]

(***************************************************************************)
(* get_ebay_sold_price: the part after the HTTP response has arrived.      *)
(* A response body is well-formed XML or not; a well-formed one holds a    *)
(* sequence of <item> elements.  An item either lacks the                  *)
(* sellingStatus/currentPrice node, or has it with no text, or with text.  *)
(***************************************************************************)

NotXml == [xml |-> FALSE, items |-> <<>>]

XmlOf(items) == [xml |-> TRUE, items |-> items]

NoPriceNode == [node |-> FALSE, text |-> <<>>]

EmptyPriceNode == [node |-> TRUE, text |-> <<>>]

PriceNode(text) == [node |-> TRUE, text |-> <<text>>]

\* price = float(item.find('sellingStatus/currentPrice').text)
ItemPrice(item) ==
    IF ~item.node THEN [raised |-> "AttributeError", val |-> Rat(0, 1)]
    ELSE IF item.text = <<>> THEN [raised |-> "TypeError", val |-> Rat(0, 1)]
    ELSE IF ~ParseFloat(item.text[1]).ok
         THEN [raised |-> "ValueError", val |-> Rat(0, 1)]
         ELSE [raised |-> "None", val |-> ParseFloat(item.text[1]).val]

\* The for loop over root.iter('item'), from the state (total_price,
\* total_items): the first item whose price cannot be read ends it.
RECURSIVE SumItems(_, _, _)
SumItems(items, total_price, total_items) ==
    IF items = <<>>
    THEN [raised |-> "None", total_price |-> total_price,
          total_items |-> total_items]
    ELSE LET p == ItemPrice(Head(items))
         IN  IF p.raised # "None"
             THEN [raised |-> p.raised, total_price |-> total_price,
                   total_items |-> total_items]
             ELSE SumItems(Tail(items), RatAdd(total_price, p.val),
                           total_items + 1)

\* The average returned as it is, the halving left out.
WholeAverage(total_price, total_items) == RatDivInt(total_price, total_items)

\* average_price / 2, where average_price = total_price / total_items
HalfAverage(total_price, total_items) ==
    RatDivInt(RatDivInt(total_price, total_items), 2)

get_ebay_sold_price(response) ==
    IF ~response.xml THEN [raised |-> "ParseError", value |-> <<>>]
    ELSE LET acc == SumItems(response.items, Rat(0, 1), 0)
         IN  IF acc.raised # "None"
             THEN [raised |-> acc.raised, value |-> <<>>]
             ELSE IF acc.total_items > 0
                  THEN [raised |-> "None",
                        value |-> <<HalfAverage(acc.total_price, acc.total_items)>>]
                  ELSE [raised |-> "None", value |-> <<>>]

(***************************************************************************)
(* generate_product_info: the part after the completion has arrived.       *)
(***************************************************************************)

\* The number of positions read from the split text (indices 0..6).
NumFields == 7

\* s.split('\n'): the pieces between newlines; never an empty list.
RECURSIVE SplitLines(_)
SplitLines(s) ==
    IF \A i \in 1..Len(s) : s[i] # "\n" THEN <<s>>
    ELSE LET k == CHOOSE i \in 1..Len(s) :
                     s[i] = "\n" /\ \A j \in 1..(i - 1) : s[j] # "\n"
         IN  <<SubSeq(s, 1, k - 1)>> \o SplitLines(SubSeq(s, k + 1, Len(s)))

\* The description read from index 0 again instead of index 1.
TakeFieldsTitleTwice(generated_text) ==
    <<generated_text[1]>> \o SubSeq(generated_text, 1, 1)
                          \o SubSeq(generated_text, 3, NumFields)

\* The fields in the order (title, description, brand, manufacturer,
\* model_number, msrp, category): generated_text[0] .. generated_text[6].
TakeFields(generated_text) == SubSeq(generated_text, 1, NumFields)

generate_product_info(text) ==
    LET generated_text == SplitLines(Strip(text))
    IN  IF Len(generated_text) < NumFields
        THEN [raised |-> "IndexError", fields |-> <<>>]
        ELSE [raised |-> "None", fields |-> <<TakeFields(generated_text)>>]

(***************************************************************************)
(* create_sellbrite_product_listing: the pure parts.                       *)
(***************************************************************************)

MsrpOf(fields) == fields[6]

\* The estimate tested for truth ("if ebay_sold_price:") instead of for None.
SelectPriceTruthy(ebay_sold_price, msrp) ==
    IF ebay_sold_price # <<>> /\ ebay_sold_price[1].num # 0
    THEN [raised |-> "None", price |-> ebay_sold_price]
    ELSE IF ~ParseFloat(msrp).ok
         THEN [raised |-> "ValueError", price |-> <<>>]
         ELSE [raised |-> "None",
               price |-> <<RatDivInt(ParseFloat(msrp).val, 2)>>]

\* if ebay_sold_price is not None: price = ebay_sold_price
\* else: price = float(msrp) / 2
SelectPrice(ebay_sold_price, msrp) ==
    IF ebay_sold_price # <<>>
    THEN [raised |-> "None", price |-> ebay_sold_price]
    ELSE IF ~ParseFloat(msrp).ok
         THEN [raised |-> "ValueError", price |-> <<>>]
         ELSE [raised |-> "None",
               price |-> <<RatDivInt(ParseFloat(msrp).val, 2)>>]

BuildPayload(sku, fields, price, upc) ==
    [sku |-> sku, title |-> fields[1], description |-> fields[2],
     brand |-> fields[3], manufacturer |-> fields[4],
     model_number |-> fields[5], price |-> price, category |-> fields[7],
     upc |-> upc]

\* response.status_code == 201
CreatedStatus == 201

\* Any 2xx status taken as success.
IsCreatedAnySuccess(status_code) == status_code \in 200..299

IsCreated(status_code) == status_code = CreatedStatus

(***************************************************************************)
(* State.                                                                  *)
(***************************************************************************)

VARIABLES
    \* one invocation of the script (main, create_sellbrite_product_listing)
    pc,               \* the stage the run is in
    camera,           \* "closed", "open" or "released"
    upc_code,         \* None or the scanned UPC
    completion,       \* None or the completion text received
    info,             \* None or the 7 fields of generate_product_info
    ebay_response,    \* None or the sold-listings response received
    ebay_sold_price,  \* None or the estimate
    price,            \* None or the selected price
    sku,              \* None or the minted SKU
    payload,          \* None or the listing payload
    posted,           \* the payloads handed to requests.post in this run
    post_response,    \* None or the response to the POST
    printed,          \* None or the message printed at the end
    error,            \* "None" or the exception that ended the run
    trace,            \* the stages this run has entered, in order
    store_at_start,   \* the sequential file as this run found it
    \* what outlives an invocation
    store,            \* the sequential file
    runs,             \* invocations started so far
    minted,           \* every SKU returned by generate_sku, with its counter
    \* two overlapping calls of generate_sku
    cstore, cpc, cread, cseq, csku, craised,
    \* one call of a function on one input
    arg, ret

runVars ==
    <<pc, camera, upc_code, completion, info, ebay_response, ebay_sold_price,
      price, sku, payload, posted, post_response, printed, error, trace,
      store_at_start>>

pipeVars == <<runVars, store, runs, minted>>

concVars == <<cstore, cpc, cread, cseq, csku, craised>>

fnVars == <<arg, ret>>

vars == <<pipeVars, concVars, fnVars>>

(***************************************************************************)
(* The pipeline, one invocation after another.                             *)
(***************************************************************************)

\* Invocations of the script in one behaviour.
MaxRuns == 3

\* What the sequential file may hold before the first run.
InitialStores ==
    { NoFile,
      FileOf(<<>>),
      FileOf(<<"0">>),
      FileOf(<<" ", "4", "1", "\n">>),
      FileOf(<<"9", "9">>),
      FileOf(<<"9", "9", "8">>),
      FileOf(<<"-", "2">>),
      FileOf(<<"1", ".", "5">>),
      FileOf(<<"x", "1">>) }

\* camera.read() and pyzbar.decode(frame): the capture flag and the decoded
\* symbols of the frame.
Frames ==
    { [ret |-> FALSE, objs |-> <<>>],
      [ret |-> TRUE,  objs |-> <<>>],
      [ret |-> TRUE,  objs |-> <<[type |-> "EAN13", data |-> "5901234123457"]>>],
      [ret |-> TRUE,  objs |-> <<[type |-> "UPC", data |-> "036000291452"]>>],
      [ret |-> TRUE,  objs |-> <<[type |-> "EAN13", data |-> "5901234123457"],
                                 [type |-> "UPC", data |-> "012345678905"],
                                 [type |-> "UPC", data |-> "036000291452"]>>] }

\* for obj in decoded_objects: if obj.type == 'UPC': upc_code = ...; break
RECURSIVE FirstUpc(_)
FirstUpc(objs) ==
    IF objs = <<>> THEN <<>>
    ELSE IF Head(objs).type = "UPC" THEN <<Head(objs).data>>
    ELSE FirstUpc(Tail(objs))

RECURSIVE JoinLines(_)
JoinLines(lines) ==
    IF Len(lines) = 1 THEN lines[1]
    ELSE lines[1] \o <<"\n">> \o JoinLines(Tail(lines))

\* Completion texts the service may return.
CompletionTexts ==
    { JoinLines(<<<<"T">>, <<"D">>, <<"B">>, <<"M">>, <<"N">>, <<"2", "0">>, <<"C">>>>),
      <<"\n", " ">> \o
      JoinLines(<<<<"T">>, <<"D">>, <<"B">>, <<"M">>, <<"N">>, <<"1", "2", ".", "5">>, <<"C">>>>)
      \o <<"\n">>,
      JoinLines(<<<<"T">>, <<"D">>, <<"B">>, <<"M">>, <<"N">>, <<"$", "2", "0">>, <<"C">>>>),
      JoinLines(<<<<"T">>, <<"D">>, <<"B">>, <<"M">>, <<"N">>, <<"7">>, <<"C">>, <<"X">>>>),
      JoinLines(<<<<"T">>, <<"D">>, <<"B">>, <<"M">>, <<"N">>, <<"2", "0">>>>),
      <<>> }

\* Sold-listings responses the search service may return.
EbayResponses ==
    { NotXml,
      XmlOf(<<>>),
      XmlOf(<<PriceNode(<<"1", "0">>), PriceNode(<<"2", "0">>), PriceNode(<<"3", "0">>)>>),
      XmlOf(<<PriceNode(<<"1", "0", ".", "0">>), PriceNode(<<"2", "0", ".", "0">>)>>),
      XmlOf(<<PriceNode(<<"0">>)>>),
      XmlOf(<<PriceNode(<<"1", "0">>), NoPriceNode>>),
      XmlOf(<<EmptyPriceNode>>),
      XmlOf(<<PriceNode(<<"$", "5">>), PriceNode(<<"1", "0">>)>>) }

\* Responses of the inventory API to POST /products.
PostResponses ==
    { [status_code |-> 201, text |-> "created"],
      [status_code |-> 200, text |-> "ok"],
      [status_code |-> 422, text |-> "unprocessable"],
      [status_code |-> 500, text |-> "server error"] }

FreshRun ==
    /\ pc = "Idle"
    /\ camera = "closed"
    /\ upc_code = <<>>
    /\ completion = <<>>
    /\ info = <<>>
    /\ ebay_response = <<>>
    /\ ebay_sold_price = <<>>
    /\ price = <<>>
    /\ sku = <<>>
    /\ payload = <<>>
    /\ posted = <<>>
    /\ post_response = <<>>
    /\ printed = <<>>
    /\ error = "None"
    /\ trace = <<"Idle">>

PipeIdle ==
    /\ FreshRun
    /\ store = NoFile
    /\ store_at_start = NoFile
    /\ runs = 0
    /\ minted = <<>>

ConcIdle ==
    /\ cstore = NoFile
    /\ cpc = <<>>
    /\ cread = <<>>
    /\ cseq = <<>>
    /\ csku = <<>>
    /\ craised = <<>>

FnIdle ==
    /\ arg = <<>>
    /\ ret = <<>>

Init ==
    /\ FreshRun
    /\ store \in InitialStores
    /\ store_at_start = store
    /\ runs = 1
    /\ minted = <<>>
    /\ ConcIdle
    /\ FnIdle

\* The run moves to `stage`.
Enter(stage) ==
    /\ pc' = stage
    /\ trace' = Append(trace, stage)

\* The exception caught in main and the scan started again.
RaiseAndRescan(exc) ==
    /\ Enter("Acquiring")
    /\ error' = exc

\* An exception propagates to the top and ends the run.
Raise(exc) ==
    /\ Enter("Failed")
    /\ error' = exc

\* main(), up to the loop: the camera is opened.
Start ==
    /\ pc = "Idle"
    /\ Enter("Acquiring")
    /\ camera' = "open"
    /\ UNCHANGED <<upc_code, completion, info, ebay_response, ebay_sold_price,
                   price, sku, payload, posted, post_response, printed, error,
                   store_at_start, store, runs, minted,
                   concVars, fnVars>>

\* One iteration of the while loop of main(); on a UPC the loop ends, the
\* camera is released and create_sellbrite_product_listing sends the prompt.
ReadFrame ==
    /\ pc = "Acquiring"
    /\ \E fr \in Frames :
          LET found == IF ~fr.ret THEN <<>> ELSE FirstUpc(fr.objs)
          IN  IF found = <<>>
              THEN UNCHANGED <<pc, trace, upc_code, camera>>
              ELSE /\ upc_code' = found
                   /\ camera' = "released"
                   /\ Enter("Generating")
    /\ UNCHANGED <<completion, info, ebay_response, ebay_sold_price,
                   price, sku, payload, posted, post_response, printed, error,
                   store_at_start, store, runs, minted,
                   concVars, fnVars>>

\* generate_product_info(upc_code): the completion call returns a text or
\* raises; the text is split into the fields.
GenerateInfo ==
    /\ pc = "Generating"
    /\ \/ /\ Raise("APIError")
          /\ UNCHANGED <<completion, info>>
       \/ \E text \in CompletionTexts :
             LET r == generate_product_info(text)
             IN  /\ completion' = <<text>>
                 /\ info' = r.fields
                 /\ IF r.raised # "None"
                    THEN Raise(r.raised)
                    ELSE Enter("Estimating") /\ UNCHANGED error
    /\ UNCHANGED <<camera, upc_code, ebay_response, ebay_sold_price,
                   price, sku, payload, posted, post_response, printed,
                   store_at_start, store, runs, minted,
                   concVars, fnVars>>

\* get_ebay_sold_price(upc_code), then the choice of the price.
EstimatePrice ==
    /\ pc = "Estimating"
    /\ \/ /\ Raise("ConnectionError")
          /\ UNCHANGED <<ebay_response, ebay_sold_price, price>>
       \/ \E response \in EbayResponses :
             LET est == get_ebay_sold_price(response)
                 sel == SelectPrice(est.value, MsrpOf(info[1]))
             IN  /\ ebay_response' = <<response>>
                 /\ IF est.raised # "None"
                    THEN /\ Raise(est.raised)
                         /\ UNCHANGED <<ebay_sold_price, price>>
                    ELSE /\ ebay_sold_price' = est.value
                         /\ price' = sel.price
                         /\ IF sel.raised # "None"
                            THEN Raise(sel.raised)
                            ELSE Enter("Minting") /\ UNCHANGED error
    /\ UNCHANGED <<camera, upc_code, completion, info, sku, payload, posted,
                   post_response, printed, store_at_start, store, runs, minted,
                   concVars, fnVars>>

\* sku = generate_sku(), then the payload is built.
MintSku ==
    /\ pc = "Minting"
    /\ \E now \in Dates :
          LET r == generate_sku(store, now)
          IN  /\ store' = r.file
              /\ sku' = r.sku
              /\ IF r.raised # "None"
                 THEN /\ Raise(r.raised)
                      /\ UNCHANGED <<payload, minted>>
                 ELSE /\ minted' = Append(minted, [sku |-> r.sku[1], seq |-> r.seq])
                      /\ payload' = <<BuildPayload(r.sku[1], info[1], price[1],
                                                   upc_code[1])>>
                      /\ Enter("Publishing")
                      /\ UNCHANGED error
    /\ UNCHANGED <<camera, upc_code, completion, info, ebay_response,
                   ebay_sold_price, price, posted, post_response, printed,
                   store_at_start, runs,
                   concVars, fnVars>>

\* requests.post(...) and the report of its outcome.
Publish ==
    /\ pc = "Publishing"
    /\ posted' = Append(posted, payload[1])
    /\ \/ /\ Raise("ConnectionError")
          /\ UNCHANGED <<post_response, printed>>
       \/ \E response \in PostResponses :
             /\ post_response' = <<response>>
             /\ UNCHANGED error
             /\ IF IsCreated(response.status_code)
                THEN /\ printed' = <<[created |-> TRUE, body |-> ""]>>
                     /\ Enter("Published")
                ELSE /\ printed' = <<[created |-> FALSE, body |-> response.text]>>
                     /\ Enter("Failed")
    /\ UNCHANGED <<camera, upc_code, completion, info, ebay_response,
                   ebay_sold_price, price, sku, payload, store_at_start,
                   store, runs, minted,
                   concVars, fnVars>>

\* The process has ended; the script is invoked again.
NextRun ==
    /\ pc \in {"Published", "Failed"}
    /\ runs < MaxRuns
    /\ runs' = runs + 1
    /\ pc' = "Idle"
    /\ camera' = "closed"
    /\ upc_code' = <<>>
    /\ completion' = <<>>
    /\ info' = <<>>
    /\ ebay_response' = <<>>
    /\ ebay_sold_price' = <<>>
    /\ price' = <<>>
    /\ sku' = <<>>
    /\ payload' = <<>>
    /\ posted' = <<>>
    /\ post_response' = <<>>
    /\ printed' = <<>>
    /\ error' = "None"
    /\ trace' = <<"Idle">>
    /\ store_at_start' = store
    /\ UNCHANGED <<store, minted, concVars, fnVars>>

Next ==
    \/ Start
    \/ ReadFrame
    \/ GenerateInfo
    \/ EstimatePrice
    \/ MintSku
    \/ Publish
    \/ NextRun

Spec == Init /\ [][Next]_vars

(***************************************************************************)
(* Two invocations inside generate_sku at the same time.  Nothing          *)
(* serialises them, so each file operation of one may fall between two     *)
(* file operations of the other.                                           *)
(***************************************************************************)

Procs == {"run1", "run2"}

\* What the sequential file may hold when the two calls begin.
ConcStores ==
    { NoFile,
      FileOf(<<"0">>),
      FileOf(<<"7", "\n">>),
      FileOf(<<"9", "9">>),
      FileOf(<<"-", "2">>),
      FileOf(<<"x">>) }

InitConc ==
    /\ cstore \in ConcStores
    /\ cpc = [p \in Procs |-> "read"]
    /\ cread = [p \in Procs |-> <<>>]
    /\ cseq = [p \in Procs |-> 0]
    /\ csku = [p \in Procs |-> <<>>]
    /\ craised = [p \in Procs |-> "None"]
    /\ PipeIdle
    /\ FnIdle

\* with open(SEQUENTIAL_FILE, 'r') as f: seq_number = int(f.read().strip())
\* seq_number += 1
ConcRead(p) ==
    /\ cpc[p] = "read"
    /\ LET rd == ReadSequential(cstore)
       IN  IF rd.raised # "None"
           THEN /\ cpc' = [cpc EXCEPT ![p] = "raised"]
                /\ craised' = [craised EXCEPT ![p] = rd.raised]
                /\ UNCHANGED <<cread, cseq>>
           ELSE /\ cpc' = [cpc EXCEPT ![p] = "open_w"]
                /\ cread' = [cread EXCEPT ![p] = <<rd.val>>]
                /\ cseq' = [cseq EXCEPT ![p] = Increment(rd.val)]
                /\ UNCHANGED craised
    /\ UNCHANGED <<cstore, csku, pipeVars, fnVars>>

\* open(SEQUENTIAL_FILE, 'w')
ConcOpenForWrite(p) ==
    /\ cpc[p] = "open_w"
    /\ cstore' = OpenForWrite(cstore)
    /\ cpc' = [cpc EXCEPT ![p] = "write"]
    /\ UNCHANGED <<cread, cseq, csku, craised, pipeVars, fnVars>>

\* f.write(str(seq_number)) and the close that flushes it
ConcWrite(p) ==
    /\ cpc[p] = "write"
    /\ cstore' = WriteAtStart(cstore, IntToStr(cseq[p]))
    /\ cpc' = [cpc EXCEPT ![p] = "format"]
    /\ UNCHANGED <<cread, cseq, csku, craised, pipeVars, fnVars>>

\* date_str = ...; sku = ...; return sku
ConcFormat(p) ==
    /\ cpc[p] = "format"
    /\ \E now \in Dates :
          csku' = [csku EXCEPT ![p] = <<BuildSku(now, cseq[p])>>]
    /\ cpc' = [cpc EXCEPT ![p] = "done"]
    /\ UNCHANGED <<cstore, cread, cseq, craised, pipeVars, fnVars>>

NextConc ==
    \E p \in Procs :
        \/ ConcRead(p)
        \/ ConcOpenForWrite(p)
        \/ ConcWrite(p)
        \/ ConcFormat(p)

SpecConc == InitConc /\ [][NextConc]_vars

(***************************************************************************)
(* One call of generate_sku on one file content at one clock reading.      *)
(***************************************************************************)

\* Longest file content tried.
MaxStoreLen == 3

StoreAlphabet == {"0", "1", "9", "-", " ", "\n", "x"}

RECURSIVE Texts(_, _)
Texts(alphabet, n) ==
    IF n = 0 THEN {<<>>}
    ELSE LET shorter == Texts(alphabet, n - 1)
         IN  shorter \cup
             {Append(t, c) : t \in {u \in shorter : Len(u) = n - 1}, c \in alphabet}

StoreFiles == {NoFile} \cup {FileOf(t) : t \in Texts(StoreAlphabet, MaxStoreLen)}

InitSku ==
    /\ arg \in [file : StoreFiles, now : Dates]
    /\ ret = <<>>
    /\ PipeIdle
    /\ ConcIdle

CallGenerateSku ==
    /\ ret = <<>>
    /\ ret' = <<generate_sku(arg.file, arg.now)>>
    /\ UNCHANGED <<arg, pipeVars, concVars>>

NextSku == CallGenerateSku

SpecSku == InitSku /\ [][NextSku]_vars

(***************************************************************************)
(* One call of get_ebay_sold_price on one sold-listings response.          *)
(***************************************************************************)

\* Most items in a response tried.
MaxItems == 3

ItemKinds ==
    { NoPriceNode, EmptyPriceNode,
      PriceNode(<<"1", "0">>), PriceNode(<<"2", "0">>), PriceNode(<<"3", "0">>),
      PriceNode(<<"0">>), PriceNode(<<"7", ".", "5">>), PriceNode(<<"$", "5">>) }

RECURSIVE Lists(_, _)
Lists(kinds, n) ==
    IF n = 0 THEN {<<>>}
    ELSE LET shorter == Lists(kinds, n - 1)
         IN  shorter \cup
             {Append(l, k) : l \in {u \in shorter : Len(u) = n - 1}, k \in kinds}

InitEbay ==
    /\ arg \in {NotXml} \cup {XmlOf(l) : l \in Lists(ItemKinds, MaxItems)}
    /\ ret = <<>>
    /\ PipeIdle
    /\ ConcIdle

CallGetEbaySoldPrice ==
    /\ ret = <<>>
    /\ ret' = <<get_ebay_sold_price(arg)>>
    /\ UNCHANGED <<arg, pipeVars, concVars>>

NextEbay == CallGetEbaySoldPrice

SpecEbay == InitEbay /\ [][NextEbay]_vars

(***************************************************************************)
(* One call of generate_product_info on one completion text.               *)
(***************************************************************************)

\* Longest completion text tried.
MaxTextLen == 9

TextAlphabet == {"a", " ", "\n"}

InitInfo ==
    /\ arg \in Texts(TextAlphabet, MaxTextLen)
    /\ ret = <<>>
    /\ PipeIdle
    /\ ConcIdle

CallGenerateProductInfo ==
    /\ ret = <<>>
    /\ ret' = <<generate_product_info(arg)>>
    /\ UNCHANGED <<arg, pipeVars, concVars>>

NextInfo == CallGenerateProductInfo

SpecInfo == InitInfo /\ [][NextInfo]_vars

(***************************************************************************)
(* Properties.                                                             *)
(***************************************************************************)

RECURSIVE NumDigits(_)
NumDigits(m) == IF m < 10 THEN 1 ELSE 1 + NumDigits(m \div 10)

Max(a, b) == IF a >= b THEN a ELSE b

\* The file exists and int() accepts what it holds.
ReadableInt(file) == file.exists /\ ParseInt(file.content).ok

CounterOf(file) == ParseInt(file.content).val

\* t is the decimal numeral of n: a "-" when n < 0, then the digits of |n|
\* with leading zeros up to at least `digits` digits and at least `width`
\* characters in all, and no more zeros than that takes.
IsNumeral(t, n, digits, width) ==
    LET d == IF n < 0 /\ t # <<>> THEN Tail(t) ELSE t
        signLen == IF n < 0 THEN 1 ELSE 0
    IN  /\ t # <<>>
        /\ n < 0 => Head(t) = "-"
        /\ d # <<>>
        /\ AllDigits(d)
        /\ DigitsVal(d) = Abs(n)
        /\ Len(d) = Max(NumDigits(Abs(n)), Max(digits, width - signLen))

\* s is YYMMDD of `now`, then "-B-", then a counter text; the text.
SkuCounterText(s) == SubSeq(s, 10, Len(s))

IsSkuOf(s, now) ==
    /\ Len(s) > 9
    /\ AllDigits(SubSeq(s, 1, 6))
    /\ DigitsVal(SubSeq(s, 1, 2)) = now.year % 100
    /\ DigitsVal(SubSeq(s, 3, 4)) = now.month
    /\ DigitsVal(SubSeq(s, 5, 6)) = now.day
    /\ SubSeq(s, 7, 9) = <<"-", "B", "-">>

\* generate_sku has been called on a file holding an integer.
SkuCalledOnInt == ret # <<>> /\ ReadableInt(arg.file)

\* C1 as stated: for every store content that parses as an integer N,
\* generate_sku returns YYMMDD-B- followed by N+1 zero-padded to at least 3
\* digits, and leaves the store holding exactly the numeral of N+1.
C1_PaddedToThreeDigits ==
    SkuCalledOnInt =>
        LET n == CounterOf(arg.file) + 1
            r == ret[1]
        IN  /\ r.raised = "None"
            /\ r.sku # <<>>
            /\ IsSkuOf(r.sku[1], arg.now)
            /\ IsNumeral(SkuCounterText(r.sku[1]), n, 3, 0)
            /\ r.file.exists
            /\ IsNumeral(r.file.content, n, 1, 0)

\* What generate_sku does for every such content: the same, with N+1
\* zero-padded to at least 3 characters, the minus sign of a negative N+1
\* counting as one of them (three digits or more when N+1 >= 0, "-" and two
\* digits or more when N+1 < 0).
C1_PaddedToThreeChars ==
    SkuCalledOnInt =>
        LET n == CounterOf(arg.file) + 1
            r == ret[1]
        IN  /\ r.raised = "None"
            /\ r.sku # <<>>
            /\ IsSkuOf(r.sku[1], arg.now)
            /\ IsNumeral(SkuCounterText(r.sku[1]), n, 1, 3)
            /\ r.file.exists
            /\ IsNumeral(r.file.content, n, 1, 0)

\* A call on a file holding an integer below -1 has returned a SKU whose
\* counter is three characters long.
C1_NegativeCounter ==
    /\ SkuCalledOnInt
    /\ CounterOf(arg.file) + 1 < 0
    /\ Len(SkuCounterText(ret[1].sku[1])) = 3

\* C2: two calls of generate_sku that overlap can both read the same N; then
\* both return a SKU carrying N+1, and when both have returned the store
\* holds N+1, one of the two increments being lost.
C2_SameReadDuplicates ==
    \A p \in Procs : \A q \in Procs \ {p} :
        (cpc[p] = "done" /\ cpc[q] = "done" /\ cread[p] = cread[q]) =>
            /\ cseq[p] = cread[p][1] + 1
            /\ cseq[q] = cseq[p]
            /\ IsNumeral(SkuCounterText(csku[p][1]), cread[p][1] + 1, 1, 3)
            /\ SkuCounterText(csku[q][1]) = SkuCounterText(csku[p][1])
            /\ ReadableInt(cstore)
            /\ CounterOf(cstore) = cread[p][1] + 1

\* Both calls have returned after reading the same N, and the store holds
\* N+1.
C2_Witness ==
    /\ cpc = [p \in Procs |-> "done"]
    /\ cread["run1"] = cread["run2"]
    /\ cread["run1"] # <<>>
    /\ csku["run1"] # <<>>
    /\ SkuCounterText(csku["run1"][1]) = SkuCounterText(csku["run2"][1])
    /\ CounterOf(cstore) = cread["run1"][1] + 1

\* The price text of every item can be read as a number.
AllPriced(items) ==
    \A i \in 1..Len(items) :
        /\ items[i].node
        /\ items[i].text # <<>>
        /\ ParseFloat(items[i].text[1]).ok

RECURSIVE PriceTotal(_)
PriceTotal(items) ==
    IF items = <<>> THEN Rat(0, 1)
    ELSE RatAdd(ParseFloat(items[Len(items)].text[1]).val,
                PriceTotal(SubSeq(items, 1, Len(items) - 1)))

\* C8: get_ebay_sold_price returns half the mean of the sold prices when
\* the response has one or more items (10 for 10, 20, 30), None when it has
\* none, and raises, returning nothing, when the price of any item is
\* missing or malformed.
C8_HalfMeanOrNone ==
    ret # <<>> =>
        LET r == ret[1]
            n == Len(arg.items)
        IN  /\ (arg.xml /\ AllPriced(arg.items) /\ n > 0) =>
                  /\ r.raised = "None"
                  /\ r.value # <<>>
                  /\ r.value[1].den > 0
                  /\ r.value[1].num * 2 * n * PriceTotal(arg.items).den
                       = PriceTotal(arg.items).num * r.value[1].den
            /\ (arg.xml /\ n = 0) => (r.raised = "None" /\ r.value = <<>>)
            /\ (~arg.xml \/ ~AllPriced(arg.items)) =>
                  (r.raised # "None" /\ r.value = <<>>)
            /\ arg.items = <<PriceNode(<<"1", "0">>), PriceNode(<<"2", "0">>),
                             PriceNode(<<"3", "0">>)>>
                  => r.value = <<[num |-> 10, den |-> 1]>>

\* The call on the prices 10, 20, 30 has returned 10.
C8_Witness ==
    /\ ret # <<>>
    /\ arg.items = <<PriceNode(<<"1", "0">>), PriceNode(<<"2", "0">>),
                     PriceNode(<<"3", "0">>)>>
    /\ ret[1].value = <<[num |-> 10, den |-> 1]>>

\* Dropping the first a and the last b characters of s drops whitespace
\* only and leaves a text that neither begins nor ends with whitespace.
StripsTo(s, a, b) ==
    LET t == SubSeq(s, a + 1, Len(s) - b)
    IN  /\ a + b <= Len(s)
        /\ \A i \in 1..a : s[i] \in Whitespace
        /\ \A i \in (Len(s) - b + 1)..Len(s) : s[i] \in Whitespace
        /\ t # <<>> => (t[1] \notin Whitespace /\ t[Len(t)] \notin Whitespace)

\* s without its leading and trailing whitespace.
Trimmed(s) ==
    LET ab == CHOOSE ab \in (0..Len(s)) \X (0..Len(s)) : StripsTo(s, ab[1], ab[2])
    IN  SubSeq(s, ab[1] + 1, Len(s) - ab[2])

Newlines(s) == Cardinality({i \in 1..Len(s) : s[i] = "\n"})

\* C9: on a text that, trimmed, splits into exactly 7 lines,
\* generate_product_info returns those 7 lines in order; on one that splits
\* into 6 or fewer it raises and returns no record.
C9_SevenLinesOrError ==
    ret # <<>> =>
        LET r == ret[1]
            t == Trimmed(arg)
        IN  /\ Newlines(t) + 1 = 7 =>
                  /\ r.raised = "None"
                  /\ r.fields # <<>>
                  /\ Len(r.fields[1]) = 7
                  /\ \A i \in 1..7 : Newlines(r.fields[1][i]) = 0
                  /\ JoinLines(r.fields[1]) = t
            /\ Newlines(t) + 1 <= 6 =>
                  (r.raised = "IndexError" /\ r.fields = <<>>)

\* A text of 7 lines with whitespace before it has been split.
C9_Witness ==
    /\ ret # <<>>
    /\ Len(arg) = 9
    /\ arg[1] = " "
    /\ ret[1].raised = "None"
    /\ ret[1].fields[1][2] # ret[1].fields[1][1]

\* The stage the run was in when it ended.
EndedAt == IF Len(trace) < 2 THEN "Idle" ELSE trace[Len(trace) - 1]

\* No two SKUs returned by generate_sku share a counter or a text.
UniqueMinted ==
    \A i \in 1..Len(minted) : \A j \in 1..Len(minted) :
        i # j => (minted[i].seq # minted[j].seq /\ minted[i].sku # minted[j].sku)

\* One step: a readable counter stays readable and does not decrease; the
\* file changes only by a completed mint, and a completed mint raises the
\* counter by exactly one and returns a SKU carrying the new value.
CounterStep ==
    /\ ReadableInt(store) =>
          (ReadableInt(store') /\ CounterOf(store') >= CounterOf(store))
    /\ store' # store => minted' # minted
    /\ minted' # minted =>
          /\ Len(minted') = Len(minted) + 1
          /\ SubSeq(minted', 1, Len(minted)) = minted
          /\ ReadableInt(store) /\ ReadableInt(store')
          /\ CounterOf(store') = CounterOf(store) + 1
          /\ minted'[Len(minted')].seq = CounterOf(store')

\* C3: over sequential runs, each free to fail at any stage, the persisted
\* counter never decreases, every completed mint raises it by exactly one,
\* and no two minted SKUs carry the same counter value.
C3_SequentialCounter == [](UniqueMinted) /\ [][CounterStep]_vars

\* Two runs have minted and the run in progress has failed.
C3_Witness ==
    /\ Len(minted) >= 2
    /\ pc = "Failed"
    /\ CounterOf(store) = CounterOf(store_at_start)

\* The stage order of the specification's state machine.
SpecOrder ==
    <<"Idle", "Acquiring", "Minting", "Estimating", "Generating", "Publishing">>

\* The stage order of create_sellbrite_product_listing.
CodeOrder ==
    <<"Idle", "Acquiring", "Generating", "Estimating", "Minting", "Publishing">>

Rank(order, stage) ==
    IF stage \in {"Published", "Failed"} THEN Len(order) + 1
    ELSE CHOOSE i \in 1..Len(order) : order[i] = stage

\* The run has gone through `order` from Idle one stage at a time, leaving
\* it only for Failed, and has left neither Published nor Failed.
InOrder(order) ==
    /\ trace[1] = "Idle"
    /\ pc = trace[Len(trace)]
    /\ \A i \in 1..(Len(trace) - 1) :
          /\ trace[i] \notin {"Published", "Failed"}
          /\ \/ trace[i + 1] = "Failed"
             \/ Rank(order, trace[i + 1]) = Rank(order, trace[i]) + 1

\* C4 as stated: every run goes Idle, Acquiring, Minting, Estimating,
\* Generating, Publishing, then Published or Failed, never back, each stage
\* entered at most once.
C4_SpecStageOrder == InOrder(SpecOrder)

\* C4 amended: every run goes Idle, Acquiring, Generating, Estimating,
\* Minting, Publishing, then Published or Failed (the metadata is generated
\* before the price is estimated, and the identifier is minted after both),
\* never back, each stage entered at most once.
C4_CodeStageOrder == InOrder(CodeOrder)

\* A run has gone through every stage and published.
C4_Witness ==
    /\ pc = "Published"
    /\ trace = CodeOrder \o <<"Published">>

\* C5: the price of the listing is the estimate whenever the estimator
\* returned one (0 included) and half the MSRP read as a number exactly
\* when it returned None; if the MSRP is then not numeric the run fails
\* with a parse error and nothing is submitted; the upc of the payload is
\* the scanned UPC.
C5_PriceAndUpc ==
    /\ payload # <<>> =>
          LET msrp == ParseFloat(MsrpOf(info[1]))
              p == payload[1].price
          IN  /\ payload[1].upc = upc_code[1]
              /\ IF ebay_sold_price # <<>>
                 THEN p = ebay_sold_price[1]
                 ELSE /\ msrp.ok
                      /\ p.den > 0
                      /\ p.num * 2 * msrp.val.den = msrp.val.num * p.den
    /\ \A i \in 1..Len(posted) : posted[i] = payload[1]
    /\ (ebay_response # <<>> /\ get_ebay_sold_price(ebay_response[1]).raised = "None") =>
          /\ ebay_sold_price = get_ebay_sold_price(ebay_response[1]).value
          /\ (ebay_sold_price = <<>> /\ ~ParseFloat(MsrpOf(info[1])).ok) =>
                /\ pc = "Failed"
                /\ error = "ValueError"
                /\ payload = <<>>
                /\ posted = <<>>

\* A listing has been submitted at the price 0 the estimator returned.
C5_Witness ==
    /\ posted # <<>>
    /\ ebay_sold_price = <<[num |-> 0, den |-> 1]>>
    /\ posted[1].price = [num |-> 0, den |-> 1]

\* C6 as stated: a run that fails at Estimating, Generating or Publishing
\* ends with the counter one above its value at the start of the run.
C6_SpentAtEveryLaterStage ==
    (/\ pc = "Failed"
     /\ EndedAt \in {"Estimating", "Generating", "Publishing"}
     /\ ReadableInt(store_at_start)) =>
        (ReadableInt(store) /\ CounterOf(store) = CounterOf(store_at_start) + 1)

\* C6 amended: a run that fails at Publishing (the one stage after
\* minting) ends with the counter one above its value at the start of the
\* run, the identifier spent and never minted again by a later run; a run
\* that fails at Generating or Estimating fails before minting and leaves
\* the counter store as it found it.
C6_SpentOnlyAtPublishing ==
    /\ (pc = "Failed" /\ EndedAt = "Publishing") =>
          /\ ReadableInt(store_at_start) /\ ReadableInt(store)
          /\ CounterOf(store) = CounterOf(store_at_start) + 1
          /\ sku # <<>>
          /\ minted # <<>>
          /\ minted[Len(minted)] = [sku |-> sku[1], seq |-> CounterOf(store)]
    /\ (pc = "Failed" /\ EndedAt \in {"Generating", "Estimating"}) =>
          (store = store_at_start /\ sku = <<>>)
    /\ \A i \in 1..Len(minted) : \A j \in 1..Len(minted) :
          i # j => minted[i].seq # minted[j].seq

\* A run has failed at Publishing after an earlier run minted.
C6_Witness ==
    /\ pc = "Failed"
    /\ EndedAt = "Publishing"
    /\ Len(minted) = 2
    /\ CounterOf(store) = CounterOf(store_at_start) + 1

\* C7: a run submits the listing at most once; it ends Published exactly
\* when the response has status 201; on any other status it reports the
\* response body as a failure, raises nothing and submits nothing more.
C7_OneSubmission ==
    /\ Len(posted) <= 1
    /\ pc = "Published" =>
          /\ post_response # <<>>
          /\ post_response[1].status_code = 201
          /\ printed = <<[created |-> TRUE, body |-> ""]>>
    /\ post_response # <<>> =>
          /\ Len(posted) = 1
          /\ error = "None"
          /\ IF post_response[1].status_code = 201
             THEN pc = "Published"
             ELSE /\ pc = "Failed"
                  /\ printed = <<[created |-> FALSE,
                                  body |-> post_response[1].text]>>

\* The API has answered 422 and the run has reported the body.
C7_Witness ==
    /\ post_response # <<>>
    /\ post_response[1].status_code = 422
    /\ pc = "Failed"
    /\ printed = <<[created |-> FALSE, body |-> "unprocessable"]>>
    /\ Len(posted) = 1

\* C10: with the counter store missing or not an integer, generate_sku
\* raises before writing: the store is left as it was, no SKU is returned
\* and the run submits nothing.
C10_BadStoreUntouched ==
    /\ (pc = "Failed" /\ EndedAt = "Minting") =>
          /\ ~ReadableInt(store_at_start)
          /\ error = IF store_at_start.exists THEN "ValueError"
                     ELSE "FileNotFoundError"
    /\ ~ReadableInt(store_at_start) =>
          /\ store = store_at_start
          /\ sku = <<>>
          /\ minted = <<>>
          /\ payload = <<>>
          /\ posted = <<>>
          /\ pc \notin {"Publishing", "Published"}
          /\ (pc = "Failed" /\ "Minting" \in {trace[i] : i \in 1..Len(trace)})
                => EndedAt = "Minting"

\* A run has failed in generate_sku on a file that is not an integer.
C10_Witness ==
    /\ pc = "Failed"
    /\ EndedAt = "Minting"
    /\ store_at_start.exists
    /\ error = "ValueError"
    /\ store = store_at_start

====
